---- MODULE Spec2Model ----
(***************************************************************************)
(* Model of the two query generators of bigquery-etl:                      *)
(*   sql/clients_daily_scalar_aggregates.sql.py     (suffix _SA)           *)
(*   sql/clients_daily_histogram_aggregates.sql.py  (suffix _HA)           *)
(* One run of a generator is: parse --agg-type, dispatch, fetch the table  *)
(* schema with `bq show`, classify the schema fields, fetch the probe      *)
(* registry, intersect, compose the SQL slots, assemble and print.         *)
(*                                                                         *)
(* Strings are sequences of tokens (a prefix such as "histogram_parent_"   *)
(* or a single character), so that str.replace, str.lower and              *)
(* str.startswith are computed and not assumed.  SQL text is a sequence of *)
(* tokens [k, arg, probe] in the order the text has them.                  *)
(***************************************************************************)
EXTENDS Integers, Sequences, FiniteSets, TLC

\* ------------------------------------------------------------------ bounds
\* longest field list of a schema (top level, and inside payload)
MaxFields == 2
\* largest number of keys of the probe registry
MaxRegistry == 2

\* ----------------------------------------------------------------- strings
RECURSIVE Replace(_, _, _)
\* str.replace(old, new) on a token sequence: every token `old` becomes the
\* token sequence `new`
Replace(s, old, new) ==
    IF s = <<>> THEN <<>>
    ELSE (IF Head(s) = old THEN new ELSE <<Head(s)>>) \o Replace(Tail(s), old, new)

\* str.lower() of one token
LowerTok(t) ==
    IF t = "X" THEN "x" ELSE IF t = "Y" THEN "y" ELSE t

\* str.lower()
Lower(s) == [i \in 1..Len(s) |-> LowerTok(s[i])]

\* the tokens whose text begins with the text `p`
TokensStartingWith(p) ==
    IF p = "scalar_parent" THEN {"scalar_parent_"}
    ELSE IF p = "histogram" THEN {"histogram_parent_", "histogram_content_", "histogram/",
                                  "histograms"}
    ELSE {p}

\* str.startswith(p)
StartsWith(s, p) == Len(s) > 0 /\ s[1] \in TokensStartingWith(p)

\* ------------------------------------------------------- schema descriptors
\* A field descriptor of `bq show --schema --format=json`: name, type and,
\* when has_fields, the nested list under the key "fields".
Leaf(n, t) == [name |-> n, type |-> t, has_fields |-> FALSE, fields |-> <<>>]
Rec(n, fs) == [name |-> n, type |-> "RECORD", has_fields |-> TRUE, fields |-> fs]

\* nested (key, value) pair of a map column
KV(k, v) == <<Leaf(<<"key">>, k), Leaf(<<"value">>, v)>>
\* a map column: RECORD -> key_value RECORD -> (key, value)
MapField(n, kv) == Rec(n, <<Rec(<<"key_value">>, kv)>>)

\* dict.get("fields", [])
GetFields(d) == IF d.has_fields THEN d.fields ELSE <<>>

\* results of functions that may raise
Ret(v) == [exc |-> "none", val |-> v]
Raise(e) == [exc |-> e, val |-> "None"]

\* ------------------------------------------------------ get_histogram_type
\* keyval_fields[1]["fields"][0]["fields"][0]["type"], with the KeyError and
\* IndexError the subscripts raise
KeyedValueType(kv) ==
    IF ~kv[2].has_fields THEN Raise("KeyError")
    ELSE IF Len(kv[2].fields) = 0 THEN Raise("IndexError")
    ELSE IF ~kv[2].fields[1].has_fields THEN Raise("KeyError")
    ELSE IF Len(kv[2].fields[1].fields) = 0 THEN Raise("IndexError")
    ELSE Ret(kv[2].fields[1].fields[1].type)

get_histogram_type(keyval_fields) ==
    IF /\ Len(keyval_fields) = 2
       /\ keyval_fields[1].type = "INTEGER"
       /\ keyval_fields[2].type = "INTEGER"
    THEN Ret("histogram")
    ELSE IF /\ Len(keyval_fields) = 2
            /\ keyval_fields[1].type = "STRING"
            /\ keyval_fields[2].type = "INTEGER"
    THEN Ret("string-histogram")
    ELSE IF /\ Len(keyval_fields) = 2
            /\ keyval_fields[1].type = "STRING"
            /\ keyval_fields[2].type = "RECORD"
    THEN LET t == KeyedValueType(keyval_fields)
         IN  IF t.exc # "none" THEN t
             ELSE IF t.val = "INTEGER" THEN Ret("keyed-histogram")
             ELSE Ret("None")
    ELSE Ret("None")

\* ------------------------------------------- scalar generator: classifier
\* field["fields"][0]["fields"][1]["type"], with the KeyError and IndexError
\* the subscripts raise
RecordValueType(field) ==
    IF ~field.has_fields THEN Raise("KeyError")
    ELSE IF Len(field.fields) = 0 THEN Raise("IndexError")
    ELSE IF ~field.fields[1].has_fields THEN Raise("KeyError")
    ELSE IF Len(field.fields[1].fields) < 2 THEN Raise("IndexError")
    ELSE Ret(field.fields[1].fields[2].type)

\* the four sets get_scalar_probes starts from
EmptyScalarSets ==
    [exc |-> "none",
     main_summary_scalars |-> {},
     main_summary_record_scalars |-> {},
     main_summary_boolean_record_scalars |-> {},
     main_summary_boolean_scalars |-> {}]

\* the loop body with the type test of the first branch lost and `if` for
\* `elif`: every scalar_parent field is a scalar, whatever else it is
ScalarLoopBody_NoTypeTest(acc, field) ==
    LET a == IF StartsWith(field.name, "scalar_parent")
             THEN [acc EXCEPT !.main_summary_scalars = @ \cup {field.name}]
             ELSE acc
    IN  IF StartsWith(field.name, "scalar_parent") /\ field.type = "BOOLEAN"
        THEN [a EXCEPT !.main_summary_boolean_scalars = @ \cup {field.name}]
        ELSE IF StartsWith(field.name, "scalar_parent") /\ field.type = "RECORD"
        THEN [a EXCEPT !.main_summary_record_scalars = @ \cup {field.name}]
        ELSE a

\* one iteration of `for field in main_summary_schema` of get_scalar_probes
ScalarLoopBody(acc, field) ==
    IF StartsWith(field.name, "scalar_parent") /\ field.type = "INTEGER"
    THEN [acc EXCEPT !.main_summary_scalars = @ \cup {field.name}]
    ELSE IF StartsWith(field.name, "scalar_parent") /\ field.type = "BOOLEAN"
    THEN [acc EXCEPT !.main_summary_boolean_scalars = @ \cup {field.name}]
    ELSE IF StartsWith(field.name, "scalar_parent") /\ field.type = "RECORD"
    THEN LET t == RecordValueType(field)
         IN  IF t.exc # "none" THEN [acc EXCEPT !.exc = t.exc]
             ELSE IF t.val = "BOOLEAN"
             THEN [acc EXCEPT !.main_summary_boolean_record_scalars = @ \cup {field.name}]
             ELSE [acc EXCEPT !.main_summary_record_scalars = @ \cup {field.name}]
    ELSE acc

RECURSIVE ScalarLoop(_, _, _)
\* the loop over the schema; an exception ends it
ScalarLoop(schema, i, acc) ==
    IF i > Len(schema) \/ acc.exc # "none" THEN acc
    ELSE ScalarLoop(schema, i + 1, ScalarLoopBody(acc, schema[i]))

\* the registry keys with the prefix rewritten and the dots kept
scalar_probes_DotsKept(data) ==
    {Replace(x, "scalar/", <<"scalar_parent_">>) :
        x \in {k \in data : StartsWith(k, "scalar/")}}

\* the registry keys as get_scalar_probes rewrites them
scalar_probes(data) ==
    {Replace(Replace(x, "scalar/", <<"scalar_parent_">>), ".", <<"_">>) :
        x \in {k \in data : StartsWith(k, "scalar/")}}

\* the keyed bucket taken from the set of BOOLEAN-valued records
ScalarResult_KeyedFromBoolean(sets, data) ==
    [scalars |-> scalar_probes(data) \cap sets.main_summary_scalars,
     booleans |-> scalar_probes(data) \cap sets.main_summary_boolean_scalars,
     keyed |-> scalar_probes(data) \cap sets.main_summary_boolean_record_scalars]

\* the dict get_scalar_probes returns
ScalarResult(sets, data) ==
    [scalars |-> scalar_probes(data) \cap sets.main_summary_scalars,
     booleans |-> scalar_probes(data) \cap sets.main_summary_boolean_scalars,
     keyed |-> scalar_probes(data) \cap sets.main_summary_record_scalars]

\* --------------------------- scalar generator: histogram classifier
\* keyval_fields of a field
KeyvalFields(field) ==
    LET subfields == GetFields(field)
    IN  IF Len(subfields) > 0 THEN GetFields(subfields[1]) ELSE <<>>

\* field["name"] without the two prefixes
HistogramFieldName(name) ==
    Replace(Replace(name, "histogram_content_", <<>>), "histogram_parent_", <<>>)

\* main_summary_original_probes[field_name] = name: a dict as a set of
\* <<key, value>> pairs, one pair per key
DictSet(d, key, value) == {p \in d : p[1] # key} \cup {<<key, value>>}
DictGet(d, key) == (CHOOSE p \in d : p[1] = key)[2]

EmptyHistogramSets ==
    [exc |-> "none",
     main_summary_histograms |-> {},
     main_summary_original_probes |-> {}]

\* one iteration of `for field in main_summary_schema` of get_histogram_probes
HistogramLoopBody(acc, field, histogram_type) ==
    IF ~StartsWith(field.name, "histogram") THEN acc
    ELSE LET t == get_histogram_type(KeyvalFields(field))
             field_name == HistogramFieldName(field.name)
         IN  IF t.exc # "none" THEN [acc EXCEPT !.exc = t.exc]
             ELSE IF histogram_type # t.val THEN acc
             ELSE [acc EXCEPT
                     !.main_summary_histograms = @ \cup {field_name},
                     !.main_summary_original_probes = DictSet(@, field_name, field.name)]

RECURSIVE HistogramLoop(_, _, _, _)
HistogramLoop(schema, i, acc, histogram_type) ==
    IF i > Len(schema) \/ acc.exc # "none" THEN acc
    ELSE HistogramLoop(schema, i + 1,
                       HistogramLoopBody(acc, schema[i], histogram_type), histogram_type)

\* the registry keys as both get_histogram_probes rewrite them
histogram_probes(data) ==
    {Lower(Replace(Replace(x, "histogram/", <<>>), ".", <<"_">>)) :
        x \in {k \in data : StartsWith(k, "histogram/")}}

\* the set get_histogram_probes of the scalar generator returns
HistogramResult_SA(sets, data) ==
    LET relevant_probes == histogram_probes(data) \cap sets.main_summary_histograms
    IN  {DictGet(sets.main_summary_original_probes, probe) : probe \in relevant_probes}

\* --------------------------------------- histogram generator: classifier
RECURSIVE FindPayloadField(_, _, _)
\* the inner loop: the first payload field named histogram_type, if any
FindPayloadField(fields, i, histogram_type) ==
    IF i > Len(fields) THEN [found |-> FALSE, field |-> Leaf(<<>>, "None")]
    ELSE IF fields[i].name = <<histogram_type>>
    THEN [found |-> TRUE, field |-> fields[i]]
    ELSE FindPayloadField(fields, i + 1, histogram_type)

RECURSIVE FindHistogramsField(_, _, _, _)
\* the outer loop: histograms_field after the loop, or the KeyError of
\* field["fields"] on a payload field without nested fields
FindHistogramsField(schema, i, acc, histogram_type) ==
    IF i > Len(schema) \/ acc.exc # "none" THEN acc
    ELSE IF schema[i].name # <<"payload">>
    THEN FindHistogramsField(schema, i + 1, acc, histogram_type)
    ELSE IF ~schema[i].has_fields THEN [acc EXCEPT !.exc = "KeyError"]
    ELSE LET hit == FindPayloadField(schema[i].fields, 1, histogram_type)
         IN  FindHistogramsField(schema, i + 1,
                 IF hit.found THEN [acc EXCEPT !.found = TRUE, !.field = hit.field]
                 ELSE acc,
                 histogram_type)

NoHistogramsField == [exc |-> "none", found |-> FALSE, field |-> Leaf(<<>>, "None")]

\* main_summary_histograms of the histogram generator
HistogramNames_HA(histograms_field) ==
    {GetFields(histograms_field)[i].name : i \in 1..Len(GetFields(histograms_field))}

\* ------------------------------------------------------------- SQL text
\* a piece of fixed text
T(k, arg) == [k |-> k, arg |-> arg, probe |-> <<>>]
\* a piece of text generated for one probe
F(k, arg, probe) == [k |-> k, arg |-> arg, probe |-> probe]

RECURSIVE Join(_, _)
\* sep.join(list)
Join(sep, list) ==
    IF Len(list) = 0 THEN <<>>
    ELSE IF Len(list) = 1 THEN list
    ELSE <<Head(list), sep>> \o Join(sep, Tail(list))

\* the separator of every fragment list: ",\n\t\t\t"
Sep == T("sep", ",")

RECURSIVE ForEach(_, _, _)
\* probe_structs after `for probe in probes: probe_structs.append(...)`,
\* the probes enumerated in the order `probes`, aggs the fragments of one probe
ForEach(probes, k, aggs) ==
    IF probes = <<>> THEN <<>>
    ELSE [i \in 1..Len(aggs) |-> F(k, aggs[i], Head(probes))]
         \o ForEach(Tail(probes), k, aggs)

\* the six partition columns of w1 and w1_unframed in the scalar generator
Partition_SA ==
    <<T("partition", "client_id"), T("partition", "submission_date_s3"),
      T("partition", "os"), T("partition", "app_version"),
      T("partition", "app_build_id"), T("partition", "channel")>>

\* ------------------------------------------- scalar generator: composer
\* the composer with the call of the aggregating function written into the
\* select clause once for each probe
get_histogram_probes_sql_strings_SA_CallPerProbe(probes, histogram_type) ==
    [probes_string |->
        <<T("array_open", "key INT64, value INT64")>>
        \o Join(Sep, ForEach(probes, "struct", <<"summed-histogram">>))
        \o <<T("array_close", "histogram_aggregates")>>,
     select_clause |->
        <<T("select", "* EXCEPT (_n) REPLACE")>>
        \o ForEach(probes, "call", <<"udf_aggregate_map_sum">>)
        \o <<T("unnest", "histogram_aggregates"), T("from", "windowed"),
             T("where", "_n = 1")>>]

get_histogram_probes_sql_strings_SA(probes, histogram_type) ==
    LET probe_structs == ForEach(probes, "struct", <<"summed-histogram">>)
        probes_arr == Join(Sep, probe_structs)
        value_arr ==
            IF histogram_type = "string-histogram" THEN "key STRING, value INT64"
            ELSE IF histogram_type = "keyed-histogram"
            THEN "key STRING, value STRUCT<key INT64, value INT64>"
            ELSE "key INT64, value INT64"
        agg_function ==
            IF histogram_type = "keyed-histogram" THEN "udf_aggregate_keyed_map_sum"
            ELSE "udf_aggregate_map_sum"
    IN  [probes_string |->
            <<T("array_open", value_arr)>> \o probes_arr
            \o <<T("array_close", "histogram_aggregates")>>,
         select_clause |->
            <<T("select", "* EXCEPT (_n) REPLACE"), T("call", agg_function),
              T("unnest", "histogram_aggregates"), T("from", "windowed"),
              T("where", "_n = 1")>>]

\* the keyed composer without the "querying_table" entry in what it returns
get_keyed_scalar_probes_sql_string_NoQueryingTable(probes) ==
    [probes_string |->
        <<T("column", "metric"), T("column", "key"), T("agg", "max"),
          T("agg", "min"), T("agg", "avg"), T("agg", "sum")>>,
     additional_queries |->
        <<T("cte", "grouped_metrics"), T("array_open", "name, value")>>
        \o Join(Sep, ForEach(probes, "pair", <<"value">>))
        \o <<T("array_close", "metrics"), T("from", "deduplicated"),
             T("cte", "flattened_metrics"), T("from", "grouped_metrics"),
             T("unnest", "metrics")>>,
     additional_partitions |->
        <<T("partition", "metric"), T("partition", "key")>>,
     select_clause |->
        <<T("select", "ARRAY_CONCAT_AGG"), T("from", "windowed"),
          T("where", "_n = 1"), T("group_by", "1,2,3,4,5,6")>>]

get_keyed_scalar_probes_sql_string(probes) ==
    LET probes_struct == ForEach(probes, "pair", <<"value">>)
        probes_arr == Join(Sep, probes_struct)
    IN  [probes_string |->
            <<T("column", "metric"), T("column", "key"), T("agg", "max"),
              T("agg", "min"), T("agg", "avg"), T("agg", "sum")>>,
         additional_queries |->
            <<T("cte", "grouped_metrics"), T("array_open", "name, value")>>
            \o probes_arr
            \o <<T("array_close", "metrics"), T("from", "deduplicated"),
                 T("cte", "flattened_metrics"), T("from", "grouped_metrics"),
                 T("unnest", "metrics")>>,
         additional_partitions |->
            <<T("partition", "metric"), T("partition", "key")>>,
         select_clause |->
            <<T("select", "ARRAY_CONCAT_AGG"), T("from", "windowed"),
              T("where", "_n = 1"), T("group_by", "1,2,3,4,5,6")>>,
         querying_table |-> <<T("from", "flattened_metrics")>>]

\* the composer returning early, without a select clause, when there is
\* nothing to aggregate
get_scalar_probes_sql_strings_EarlyReturn(probes, scalar_type) ==
    IF scalar_type = "keyed-scalar"
    THEN get_keyed_scalar_probes_sql_string(probes.keyed)
    ELSE IF probes.scalars = <<>> /\ probes.booleans = <<>>
    THEN [probes_string |-> <<>>]
    ELSE [probes_string |->
            <<T("array_open", "value FLOAT64")>>
            \o Join(Sep, ForEach(probes.scalars, "struct", <<"max", "avg", "min", "sum">>)
                         \o ForEach(probes.booleans, "struct", <<"false", "true">>))
            \o <<T("array_close", "scalar_aggregates")>>,
          select_clause |->
            <<T("select", "* EXCEPT(_n)"), T("from", "windowed"),
              T("where", "_n = 1")>>]

\* the composer with its two loops interleaved: the fragments grouped by
\* aggregate first and by probe second, the booleans ahead of the scalars
get_scalar_probes_sql_strings_Regrouped(probes, scalar_type) ==
    IF scalar_type = "keyed-scalar"
    THEN get_keyed_scalar_probes_sql_string(probes.keyed)
    ELSE [probes_string |->
            <<T("array_open", "value FLOAT64")>>
            \o Join(Sep, ForEach(probes.booleans, "struct", <<"false">>)
                         \o ForEach(probes.booleans, "struct", <<"true">>)
                         \o ForEach(probes.scalars, "struct", <<"max">>)
                         \o ForEach(probes.scalars, "struct", <<"avg">>)
                         \o ForEach(probes.scalars, "struct", <<"min">>)
                         \o ForEach(probes.scalars, "struct", <<"sum">>))
            \o <<T("array_close", "scalar_aggregates")>>,
          select_clause |->
            <<T("select", "* EXCEPT(_n)"), T("from", "windowed"),
              T("where", "_n = 1")>>]

\* probes: the dict of get_scalar_probes, each set in its iteration order
get_scalar_probes_sql_strings(probes, scalar_type) ==
    IF scalar_type = "keyed-scalar"
    THEN get_keyed_scalar_probes_sql_string(probes.keyed)
    ELSE
    LET probe_structs ==
            ForEach(probes.scalars, "struct", <<"max", "avg", "min", "sum">>)
            \o ForEach(probes.booleans, "struct", <<"false", "true">>)
        probes_arr == Join(Sep, probe_structs)
    IN  [probes_string |->
            <<T("array_open", "value FLOAT64")>> \o probes_arr
            \o <<T("array_close", "scalar_aggregates")>>,
         select_clause |->
            <<T("select", "* EXCEPT(_n)"), T("from", "windowed"),
              T("where", "_n = 1")>>]

\* sql_string.get(slot, default)
Get(sql_string, slot, default) ==
    IF slot \in DOMAIN sql_string THEN sql_string[slot] ELSE default

\* the clauses numbered_duplicates and deduplicated of the scalar generator
Deduplication_SA ==
    <<T("cte", "numbered_duplicates"),
      T("rank_by", "client_id"), T("rank_by", "submission_date_s3"),
      T("rank_by", "document_id"),
      T("order_by", "timestamp"), T("from", "main_summary_v4"),
      T("cte", "deduplicated"), T("from", "numbered_duplicates"),
      T("where", "_n = 1")>>

generate_sql_SA(aggregates, additional_queries, additional_partitions, select_clause, querying_table) ==
    <<T("comment", "sql/clients_daily_scalar_aggregates.sql.py"),
      T("udf", "udf_aggregate_map_sum"), T("udf", "udf_aggregate_keyed_map_sum"),
      T("with", "")>>
    \o Deduplication_SA
    \o additional_queries
    \o <<T("cte", "windowed"), T("row_number", "w1_unframed")>>
    \o aggregates
    \o querying_table
    \o <<T("window", "w1")>> \o Partition_SA \o additional_partitions
    \o <<T("window", "w1_unframed")>> \o Partition_SA \o additional_partitions
    \o <<T("end", "windowed")>>
    \o select_clause

\* ---------------------------------------- histogram generator: composer
KeyedPartition_HA ==
    <<T("partition", "client_id"), T("partition", "submission_date"),
      T("partition", "os"), T("partition", "app_version"),
      T("partition", "app_build_id"), T("partition", "channel"),
      T("partition", "metric"), T("partition", "key")>>

Partition_HA ==
    <<T("partition", "client_id"), T("partition", "DATE(submission_timestamp)"),
      T("partition", "normalized_os"), T("partition", "SPLIT(application.version)"),
      T("partition", "application.build_id"), T("partition", "normalized_channel")>>

_get_keyed_histogram_sql(probes) ==
    LET probes_struct == ForEach(probes, "pair", <<"payload.keyed_histograms">>)
        probes_arr == Join(Sep, probes_struct)
        probes_string ==
            <<T("column", "metric"), T("column", "key"),
              T("agg", "bucket_range"), T("agg", "value")>>
    IN  [additional_queries |->
            <<T("cte", "grouped_metrics"), T("array_open", "name, value")>>
            \o probes_arr
            \o <<T("array_close", "metrics"), T("from", "deduplicated"),
                 T("cte", "flattened_metrics"), T("from", "grouped_metrics"),
                 T("unnest", "metrics")>>,
         select_clause |->
            <<T("select", "ARRAY_AGG"), T("call", "udf_get_histogram_type"),
              T("call", "udf_get_bucket_range"), T("call", "udf_aggregate_json_sum"),
              T("from", "windowed"), T("where", "_n = 1"),
              T("group_by", "1,2,3,4,5,6")>>,
         windowed_clause |->
            <<T("row_number", "w1_unframed")>> \o probes_string
            \o <<T("from", "flattened_metrics"), T("window", "w1")>>
            \o KeyedPartition_HA
            \o <<T("window", "w1_unframed")>> \o KeyedPartition_HA]

get_histogram_probes_sql_strings_HA(probes, histogram_type) ==
    IF histogram_type = "keyed_histograms" THEN _get_keyed_histogram_sql(probes)
    ELSE
    LET probe_structs == ForEach(probes, "struct", <<"summed-histogram">>)
        probes_arr == Join(Sep, probe_structs)
        probes_string ==
            <<T("array_open", "bucket_range ARRAY<STRING>, value ARRAY<STRING>")>>
            \o probes_arr \o <<T("array_close", "histogram_aggregates")>>
    IN  [select_clause |->
            <<T("select", "* EXCEPT (_n) REPLACE"), T("call", "udf_aggregate_json_sum"),
              T("call", "udf_get_bucket_range"), T("call", "udf_get_histogram_type"),
              T("unnest", "histogram_aggregates"), T("from", "windowed"),
              T("where", "_n = 1")>>,
         windowed_clause |->
            <<T("row_number", "w1_unframed")>> \o probes_string
            \o <<T("from", "deduplicated"), T("window", "w1")>> \o Partition_HA
            \o <<T("window", "w1_unframed")>> \o Partition_HA]

\* the clauses numbered_duplicates and deduplicated of the histogram generator
Deduplication_HA ==
    <<T("cte", "numbered_duplicates"),
      T("rank_by", "client_id"), T("rank_by", "submission_timestamp"),
      T("rank_by", "document_id"),
      T("order_by", "submission_timestamp"), T("from", "main_v4"),
      T("cte", "deduplicated"), T("from", "numbered_duplicates"),
      T("where", "_n = 1")>>

generate_sql_HA(additional_queries, windowed_clause, select_clause) ==
    <<T("comment", "sql/clients_daily_histogram_aggregates.sql.py"),
      T("udf", "get_keyval_pairs"), T("udf", "string_to_arr"),
      T("udf", "udf_get_bucket_range"), T("udf", "udf_get_histogram_type"),
      T("udf", "udf_aggregate_json_sum"), T("with", "")>>
    \o Deduplication_HA
    \o additional_queries
    \o <<T("cte", "windowed")>>
    \o windowed_clause
    \o <<T("end", "windowed")>>
    \o select_clause

\* ------------------------------------------------- inputs of one run
\* column names of main_summary_v4
sx == <<"scalar_parent_", "x">>
sxy == <<"scalar_parent_", "x", "_", "y">>
hpx == <<"histogram_parent_", "x">>
hcx == <<"histogram_content_", "x">>
hpy == <<"histogram_parent_", "y">>

\* the (key, value) pair of a keyed histogram column: value is itself a map
KeyedKV ==
    <<Leaf(<<"key">>, "STRING"),
      Rec(<<"value">>, <<Rec(<<"key_value">>, KV("INTEGER", "INTEGER"))>>)>>

\* the columns a main_summary_v4 schema is drawn from
Columns_SA ==
    {Leaf(sx, "INTEGER"), Leaf(sx, "BOOLEAN"), Leaf(sx, "STRING"), Leaf(sx, "RECORD"),
     MapField(sx, KV("STRING", "INTEGER")), MapField(sx, KV("STRING", "BOOLEAN")),
     MapField(sx, KV("STRING", "STRING")),
     Leaf(sxy, "INTEGER"), Leaf(sxy, "BOOLEAN"), MapField(sxy, KV("STRING", "INTEGER")),
     MapField(hpx, KV("INTEGER", "INTEGER")), MapField(hpx, KV("STRING", "INTEGER")),
     MapField(hpx, KeyedKV),
     MapField(hpx, <<Leaf(<<"key">>, "STRING"), Leaf(<<"value">>, "RECORD")>>),
     MapField(hcx, KV("INTEGER", "INTEGER")),
     MapField(hpy, KV("INTEGER", "INTEGER")),
     Leaf(<<"client_id">>, "STRING")}

RECURSIVE ListsOfLen(_, _)
\* the lists of n fields of S, no two of one name (a table has no two
\* columns of one name)
ListsOfLen(S, n) ==
    IF n = 0 THEN {<<>>}
    ELSE {Append(p[1], p[2]) :
            p \in {q \in ListsOfLen(S, n - 1) \X S :
                     \A i \in 1..Len(q[1]) : q[1][i].name # q[2].name}}

FieldLists(S) == UNION {ListsOfLen(S, k) : k \in 0..MaxFields}

Schemas_SA == FieldLists(Columns_SA)

\* the fields of payload.histograms and payload.keyed_histograms of main_v4
HistogramLeaves == {Leaf(<<"x">>, "STRING"), Leaf(<<"y">>, "STRING")}

\* the fields of payload
PayloadFields ==
    {Rec(<<g>>, hs) : g \in {"histograms", "keyed_histograms"},
                      hs \in FieldLists(HistogramLeaves)}
    \cup {Leaf(<<"histograms">>, "RECORD"), Leaf(<<"info">>, "RECORD")}

\* the columns a main_v4 schema is drawn from
Columns_HA ==
    {Rec(<<"payload">>, pfs) : pfs \in FieldLists(PayloadFields)}
    \cup {Leaf(<<"payload">>, "RECORD"), Leaf(<<"client_id">>, "STRING")}

Schemas_HA == FieldLists(Columns_HA)

\* the keys the probe info service may return
RegistryKeys ==
    {<<"scalar/", "x">>, <<"scalar/", "x", ".", "y">>,
     <<"histogram/", "X">>, <<"histogram/", "y">>}

Registries == {d \in SUBSET RegistryKeys : Cardinality(d) <= MaxRegistry}

\* values of --agg-type; Missing is a command line without the flag
Missing == "<missing>"
AggTypes ==
    {"scalar", "keyed-scalar", "histogram", "string-histogram", "keyed-histogram",
     "histograms", "keyed_histograms", "boolean", "frobnicate", Missing}

\* process.returncode: an exit status, or minus the signal that ended bq
ReturnCodes == {-9, 0, 1}

\* all the orders a `for` over the set S can take
Enumerations(S) ==
    {e \in [1..Cardinality(S) -> S] : \A i, j \in 1..Cardinality(S) : e[i] = e[j] => i = j}

\* ------------------------------------------------------------ the state
VARIABLES
    generator,            \* "SA" or "HA": which of the two scripts runs
    agg_type,             \* the value of --agg-type
    pc,                   \* the next step of main
    returncode,           \* process.returncode of bq
    main_summary_schema,  \* json.loads(stdout)
    locals,               \* the sets the classifier has filled in its loop
    data,                 \* the keys of the probe info reply
    probes,               \* what the classifier returned: [ret, ...]
    sql_string,           \* what the composer returned
    printed,              \* the texts passed to out(), in order
    exception,            \* the uncaught exception, "none" while there is none
    exit_code,            \* the exit status once pc = "exited"
    n_bq,                 \* calls of bq show so far
    n_urlopen,            \* calls of urlopen so far
    urlopen_failed        \* urlopen (or reading its reply) raised

vars == <<generator, agg_type, pc, returncode, main_summary_schema, locals, data,
          probes, sql_string, printed, exception, exit_code, n_bq, n_urlopen,
          urlopen_failed>>

\* no classifier result yet
NoProbes == [ret |-> "unset", scalars |-> {}, booleans |-> {}, keyed |-> {}, set |-> {}]
\* the classifier returned None
NoneProbes == [NoProbes EXCEPT !.ret = "None"]
\* the classifier returned a dict of three sets
DictProbes(d) == [ret |-> "dict", scalars |-> d.scalars, booleans |-> d.booleans,
                  keyed |-> d.keyed, set |-> {}]
\* the classifier returned a set
SetProbes(s) == [NoProbes EXCEPT !.ret = "set", !.set = s]

NoLocals == [exc |-> "none"]
NoSql == [slot \in {} |-> <<>>]

Init ==
    /\ generator \in {"SA", "HA"}
    /\ agg_type \in AggTypes
    /\ pc = "main"
    /\ returncode = 0
    /\ main_summary_schema = <<>>
    /\ locals = NoLocals
    /\ data = {}
    /\ probes = NoProbes
    /\ sql_string = NoSql
    /\ printed = <<>>
    /\ exception = "none"
    /\ exit_code = 0
    /\ n_bq = 0
    /\ n_urlopen = 0
    /\ urlopen_failed = FALSE

\* an uncaught exception ends the run: argparse exits with 2, the
\* interpreter with 1
Exit(e) ==
    /\ pc' = "exited"
    /\ exception' = e
    /\ exit_code' = IF e = "none" THEN 0 ELSE IF e = "SystemExit" THEN 2 ELSE 1

\* main without its else branch: whatever is not a scalar selector is taken
\* for a histogram selector
main_branch_NoElse(agg) ==
    IF agg \in {"scalar", "keyed-scalar"} THEN "get_scalar_probes"
    ELSE "get_histogram_probes"

\* ----------------------------------------------------------------- main
\* the branch main takes for a selector
main_branch_SA(agg) ==
    IF agg \in {"scalar", "keyed-scalar"} THEN "get_scalar_probes"
    ELSE IF agg \in {"histogram", "keyed-histogram", "string-histogram"}
    THEN "get_histogram_probes"
    ELSE "ValueError"

main_branch_HA(agg) ==
    IF agg \in {"histograms", "keyed_histograms"} THEN "get_histogram_probes"
    ELSE "ValueError"

main_branch == IF generator = "SA" THEN main_branch_SA(agg_type)
               ELSE main_branch_HA(agg_type)

\* p.parse_args and the if/elif/else of main
Main ==
    /\ pc = "main"
    /\ IF agg_type = Missing THEN Exit("SystemExit")
       ELSE IF main_branch = "ValueError" THEN Exit("ValueError")
       ELSE /\ pc' = "bq_show"
            /\ UNCHANGED <<exception, exit_code>>
    /\ UNCHANGED <<generator, agg_type, returncode, main_summary_schema, locals,
                   data, probes, sql_string, printed, n_bq, n_urlopen, urlopen_failed>>

\* `if process.returncode > 1`
BqFailedOffByOne(rc) == rc > 1

\* `if process.returncode > 0`
BqFailed(rc) == rc > 0

\* the classifier's loop over the schema, by generator and branch
ClassifierLoop(schema) ==
    IF generator = "HA"
    THEN FindHistogramsField(schema, 1, NoHistogramsField, agg_type)
    ELSE IF main_branch = "get_scalar_probes"
    THEN ScalarLoop(schema, 1, EmptyScalarSets)
    ELSE HistogramLoop(schema, 1, EmptyHistogramSets, agg_type)

\* bq show --schema, json.loads(stdout) and the loop over the schema, up to
\* the call of urlopen (or to `return` when histograms_field is None)
BqShowSchema ==
    /\ pc = "bq_show"
    /\ n_bq' = n_bq + 1
    /\ \E rc \in ReturnCodes, parses \in BOOLEAN,
          schema \in (IF generator = "SA" THEN Schemas_SA ELSE Schemas_HA) :
        /\ returncode' = rc
        /\ IF BqFailed(rc)
           THEN /\ Exit("Exception")
                /\ UNCHANGED <<main_summary_schema, locals, probes>>
           ELSE IF ~parses
           THEN /\ Exit("JSONDecodeError")
                /\ UNCHANGED <<main_summary_schema, locals, probes>>
           ELSE LET acc == ClassifierLoop(schema)
                IN  /\ main_summary_schema' = schema
                    /\ locals' = acc
                    /\ IF acc.exc # "none"
                       THEN Exit(acc.exc) /\ UNCHANGED probes
                       ELSE IF generator = "HA" /\ ~acc.found
                       THEN /\ probes' = NoneProbes
                            /\ pc' = "compose"
                            /\ UNCHANGED <<exception, exit_code>>
                       ELSE /\ pc' = "urlopen"
                            /\ UNCHANGED <<probes, exception, exit_code>>
    /\ UNCHANGED <<generator, agg_type, data, sql_string, printed, n_urlopen,
                   urlopen_failed>>

\* what the classifier returns once the registry is read
ClassifierResult(d) ==
    IF generator = "HA"
    THEN SetProbes(histogram_probes(d) \cap HistogramNames_HA(locals.field))
    ELSE IF main_branch = "get_scalar_probes"
    THEN DictProbes(ScalarResult(locals, d))
    ELSE SetProbes(HistogramResult_SA(locals, d))

\* the registry fetch made a second time when the first one raised
UrlopenProbeInfo_Retry ==
    /\ pc = "urlopen"
    /\ n_urlopen' = n_urlopen + 1
    /\ \E ok \in BOOLEAN, d \in Registries :
        IF ~ok /\ n_urlopen = 0
        THEN /\ urlopen_failed' = TRUE
             /\ UNCHANGED <<data, probes, pc, exception, exit_code>>
        ELSE IF ~ok
        THEN /\ urlopen_failed' = TRUE
             /\ Exit("URLError")
             /\ UNCHANGED <<data, probes>>
        ELSE /\ urlopen_failed' = FALSE
             /\ data' = d
             /\ probes' = ClassifierResult(d)
             /\ pc' = "compose"
             /\ UNCHANGED <<exception, exit_code>>
    /\ UNCHANGED <<generator, agg_type, returncode, main_summary_schema, locals,
                   sql_string, printed, n_bq>>

\* urlopen(PROBE_INFO_SERVICE), json.loads, the intersection and the return
UrlopenProbeInfo ==
    /\ pc = "urlopen"
    /\ n_urlopen' = n_urlopen + 1
    /\ \E ok \in BOOLEAN, d \in Registries :
        IF ~ok
        THEN /\ urlopen_failed' = TRUE
             /\ Exit("URLError")
             /\ UNCHANGED <<data, probes>>
        ELSE /\ urlopen_failed' = FALSE
             /\ data' = d
             /\ probes' = ClassifierResult(d)
             /\ pc' = "compose"
             /\ UNCHANGED <<exception, exit_code>>
    /\ UNCHANGED <<generator, agg_type, returncode, main_summary_schema, locals,
                   sql_string, printed, n_bq>>

\* the composer's result for the probes enumerated as es (scalars or the
\* set), eb (booleans) and ek (keyed)
ComposeWith(es, eb, ek) ==
    IF generator = "HA" THEN get_histogram_probes_sql_strings_HA(es, agg_type)
    ELSE IF main_branch = "get_scalar_probes"
    THEN get_scalar_probes_sql_strings(
            [scalars |-> es, booleans |-> eb, keyed |-> ek], agg_type)
    ELSE get_histogram_probes_sql_strings_SA(es, agg_type)

\* the set the composer's first loop runs over
FirstSet == IF probes.ret = "dict" THEN probes.scalars ELSE probes.set

\* get_*_probes_sql_strings: each `for probe in probes` takes the set in
\* some order; `for probe in None` raises TypeError
Compose ==
    /\ pc = "compose"
    /\ IF probes.ret = "None"
       THEN Exit("TypeError") /\ UNCHANGED sql_string
       ELSE /\ \E es \in Enumerations(FirstSet),
                  eb \in Enumerations(probes.booleans),
                  ek \in Enumerations(probes.keyed) :
                    sql_string' = ComposeWith(es, eb, ek)
            /\ pc' = "out"
            /\ UNCHANGED <<exception, exit_code>>
    /\ UNCHANGED <<generator, agg_type, returncode, main_summary_schema, locals,
                   data, probes, printed, n_bq, n_urlopen, urlopen_failed>>

\* the slots main reads with sql_string[...]: a missing one is a KeyError
RequiredSlots ==
    IF generator = "SA" THEN {"probes_string", "select_clause"}
    ELSE {"windowed_clause", "select_clause"}

\* the text main passes to out
Assemble(sql) ==
    IF generator = "SA"
    THEN generate_sql_SA(sql["probes_string"],
                         Get(sql, "additional_queries", <<>>),
                         Get(sql, "additional_partitions", <<>>),
                         sql["select_clause"],
                         Get(sql, "querying_table", <<T("from", "deduplicated")>>))
    ELSE generate_sql_HA(Get(sql, "additional_queries", <<>>),
                         sql["windowed_clause"],
                         sql["select_clause"])

\* out(generate_sql(...)) and the normal end of main
Out ==
    /\ pc = "out"
    /\ IF RequiredSlots \subseteq DOMAIN sql_string
       THEN /\ printed' = Append(printed, Assemble(sql_string))
            /\ Exit("none")
       ELSE /\ Exit("KeyError")
            /\ UNCHANGED printed
    /\ UNCHANGED <<generator, agg_type, returncode, main_summary_schema, locals,
                   data, probes, sql_string, n_bq, n_urlopen, urlopen_failed>>

Next == Main \/ BqShowSchema \/ UrlopenProbeInfo \/ Compose \/ Out

Spec == Init /\ [][Next]_vars

\* =================================================================== claims
\* the shapes the specification names, read off a field descriptor
IsPair(kv, kt, vt) ==
    /\ Len(kv) = 2
    /\ kv[1].type = kt /\ ~kv[1].has_fields
    /\ kv[2].type = vt /\ ~kv[2].has_fields

\* a RECORD whose single nested field is a RECORD
SingleNestedRecord(field) ==
    /\ field.type = "RECORD" /\ field.has_fields /\ Len(field.fields) = 1
    /\ field.fields[1].type = "RECORD" /\ field.fields[1].has_fields

\* a RECORD whose single nested field is a RECORD of (key STRING, value vt)
KeyedScalarShape(field, vt) ==
    SingleNestedRecord(field) /\ IsPair(field.fields[1].fields, "STRING", vt)

\* a RECORD whose nested pair is the one the histogram type tag asks for
HistogramShape(field, tag) ==
    /\ SingleNestedRecord(field)
    /\ LET kv == field.fields[1].fields
       IN  IF tag = "histogram" THEN IsPair(kv, "INTEGER", "INTEGER")
           ELSE IF tag = "string-histogram" THEN IsPair(kv, "STRING", "INTEGER")
           ELSE /\ tag = "keyed-histogram"
                /\ Len(kv) = 2 /\ kv[1].type = "STRING"
                /\ SingleNestedRecord(kv[2])
                /\ IsPair(kv[2].fields[1].fields, "INTEGER", "INTEGER")

\* the fields of the schema the run read
SchemaFields == {main_summary_schema[i] : i \in 1..Len(main_summary_schema)}

\* the classifier has returned a dict or a set
Returned == probes.ret \in {"dict", "set"}

\* every name the classifier returned
ReturnedNames == probes.scalars \cup probes.booleans \cup probes.keyed \cup probes.set

\* the tokens of a text
Tokens(q) == {q[i] : i \in 1..Len(q)}

\* the per-probe fragments of a text
Fragments(q) == {i \in 1..Len(q) : q[i].k \in {"struct", "pair"}}

\* C1: Classifier soundness.  A name is in a returned bucket of the scalar
\* generator only if it is the name of a schema field of the shape the bucket
\* stands for (INTEGER for scalars, BOOLEAN for booleans, a single nested
\* RECORD of (key STRING, value INTEGER or BOOLEAN) for keyed, the tagged
\* pair for a histogram type) and its normalized name is in the normalized
\* registry.
C1_ClassifierSound ==
    (generator = "SA" /\ Returned) =>
        /\ \A n \in probes.scalars :
              n \in scalar_probes(data)
              /\ \E f \in SchemaFields : f.name = n /\ f.type = "INTEGER"
        /\ \A n \in probes.booleans :
              n \in scalar_probes(data)
              /\ \E f \in SchemaFields : f.name = n /\ f.type = "BOOLEAN"
        /\ \A n \in probes.keyed :
              n \in scalar_probes(data)
              /\ \E f \in SchemaFields :
                    f.name = n /\ (KeyedScalarShape(f, "INTEGER")
                                   \/ KeyedScalarShape(f, "BOOLEAN"))
        /\ \A n \in probes.set :
              HistogramFieldName(n) \in histogram_probes(data)
              /\ \E f \in SchemaFields : f.name = n /\ HistogramShape(f, agg_type)

\* the schema has no payload field, or its payload has no field named by the
\* selector
GroupAbsent ==
    \A f \in SchemaFields :
        f.name = <<"payload">> =>
            /\ f.has_fields
            /\ \A i \in 1..Len(f.fields) : f.fields[i].name # <<agg_type>>

\* the run got past the selector and the schema fetch
SchemaRead ==
    n_bq = 1 /\ exception \notin {"Exception", "JSONDecodeError"}

\* C2: Absent group is not an error.  In the histogram generator, when the
\* schema that was read has no payload field or no payload subfield named by
\* the selector, the classifier returns the empty set, nothing is raised and
\* the run ends having printed one query without any fragment.
C2_AbsentGroupPrintsEmptyQuery ==
    (generator = "HA" /\ pc = "exited" /\ SchemaRead /\ GroupAbsent) =>
        /\ exception = "none"
        /\ probes = SetProbes({})
        /\ Len(printed) = 1
        /\ Fragments(printed[1]) = {}

\* C3: Determinism of composition.  The composed slots do not depend on the
\* order in which the probe sets are enumerated: every enumeration of the
\* same sets composes to what this run composed.
C3_OrderIndependent ==
    pc = "out" =>
        \A es \in Enumerations(FirstSet),
           eb \in Enumerations(probes.booleans),
           ek \in Enumerations(probes.keyed) :
            ComposeWith(es, eb, ek) = sql_string

\* C4: Lossless name mapping.  Every histogram field of the schema that has
\* the shape of the requested type and whose normalized name is in the
\* registry is returned under its own name by get_histogram_probes of the
\* scalar generator.
C4_LosslessNames ==
    (generator = "SA" /\ probes.ret = "set") =>
        \A f \in SchemaFields :
            ( /\ StartsWith(f.name, "histogram")
              /\ HistogramShape(f, agg_type)
              /\ HistogramFieldName(f.name) \in histogram_probes(data) )
            => f.name \in probes.set

\* the places of the token t in the text q
Places(q, t) == {i \in 1..Len(q) : q[i] = t}

\* the two deduplication clauses are in q once each, numbered_duplicates
\* first, deduplicated keeps the rows of rank 1 of it, and every other
\* clause, every window and aggregate and the final select come after them
DeduplicationPrecedes(q) ==
    LET nd == Places(q, T("cte", "numbered_duplicates"))
        dd == Places(q, T("cte", "deduplicated"))
    IN  /\ Cardinality(nd) = 1
        /\ Cardinality(dd) = 1
        /\ \A i \in nd, j \in dd :
            /\ i < j
            /\ j + 2 <= Len(q)
            /\ q[j + 1] = T("from", "numbered_duplicates")
            /\ q[j + 2] = T("where", "_n = 1")
            /\ \A m \in 1..Len(q) :
                ( \/ q[m].k = "cte" /\ m \notin {i, j}
                  \/ q[m].k \in {"select", "window", "agg", "struct", "pair",
                                 "array_open", "group_by", "unnest"} )
                => m > j + 2

\* the columns the rank _n is taken over, in order
RankColumns(q) ==
    LET at == {i \in 1..Len(q) : q[i].k = "rank_by"}
    IN  [n \in 1..Cardinality(at) |->
            q[CHOOSE i \in at : Cardinality({j \in at : j <= i}) = n].arg]

\* column expressions that are a date
DateColumns == {"submission_date_s3", "submission_date", "DATE(submission_timestamp)"}

\* the rank is taken per client, date and document
RankedPerClientDateDocument(q) ==
    /\ Len(RankColumns(q)) = 3
    /\ RankColumns(q)[1] = "client_id"
    /\ RankColumns(q)[2] \in DateColumns
    /\ RankColumns(q)[3] = "document_id"

\* C5: Deduplication always comes first.  Every assembled query, of either
\* generator and for every metric type and probe set, holds the clauses
\* numbered_duplicates and deduplicated, which keep the row of rank _n = 1
\* per client, date and document, before the reshaping block, the windowed
\* clause and the final select.
C5_DeduplicationFirst ==
    \A n \in 1..Len(printed) :
        /\ DeduplicationPrecedes(printed[n])
        /\ RankedPerClientDateDocument(printed[n])

\* the order alone: holds of every printed query of both generators
DeduplicationPrecedesAll ==
    \A n \in 1..Len(printed) : DeduplicationPrecedes(printed[n])

\* the classifier returned, and every set the composer enumerates for this
\* selector is empty
ComposedEmpty ==
    /\ Returned
    /\ IF probes.ret = "set" THEN probes.set = {}
       ELSE IF agg_type = "keyed-scalar" THEN probes.keyed = {}
       ELSE probes.scalars = {} /\ probes.booleans = {}

\* the slots the master template of each generator cannot do without
TemplateSlots ==
    IF generator = "SA" THEN {"probes_string", "select_clause"}
    ELSE {"windowed_clause", "select_clause"}

\* every array literal of q is empty
ArraysEmpty(q) ==
    \A i \in 1..Len(q) :
        q[i].k = "array_open" => i < Len(q) /\ q[i + 1].k = "array_close"

\* C6: Empty probe set composes.  Composing an empty probe set raises
\* nothing and returns every slot the master template requires, with no
\* fragment and no separator in any slot and every array literal empty; the
\* query is then printed.
C6_EmptyProbeSetComposes ==
    (ComposedEmpty /\ pc \in {"out", "exited"}) =>
        /\ exception = "none"
        /\ TemplateSlots \subseteq DOMAIN sql_string
        /\ \A slot \in DOMAIN sql_string :
              /\ Fragments(sql_string[slot]) = {}
              /\ Sep \notin Tokens(sql_string[slot])
              /\ ArraysEmpty(sql_string[slot])
        /\ pc = "exited" => Len(printed) = 1

\* witness of C6: the histogram generator printed the query of an empty set
C6_Witness ==
    /\ generator = "HA" /\ pc = "exited" /\ ComposedEmpty
    /\ Len(printed) = 1 /\ T("array_open", "bucket_range ARRAY<STRING>, value ARRAY<STRING>")
                             \in Tokens(printed[1])

\* the values of --agg-type each generator accepts
Vocabulary ==
    IF generator = "SA"
    THEN {"scalar", "keyed-scalar", "histogram", "keyed-histogram", "string-histogram"}
    ELSE {"histograms", "keyed_histograms"}

FetchFailed == (n_bq > 0 /\ returncode > 0) \/ urlopen_failed

\* C8: Fetch failure is fatal with no output.  Once bq has exited non-zero
\* or the registry fetch has failed, the run has ended with an exception and
\* a non-zero status, nothing was printed, no step can follow, and neither
\* fetch was made twice.
C8_FetchFailureFatal ==
    /\ n_bq <= 1
    /\ n_urlopen <= 1
    /\ FetchFailed =>
        /\ pc = "exited"
        /\ exception # "none"
        /\ exit_code # 0
        /\ printed = <<>>
        /\ ~ENABLED Next

\* witness of C8: bq exited with status 1 and the run ended
C8_Witness ==
    /\ pc = "exited" /\ n_bq = 1 /\ returncode = 1
    /\ exception = "Exception" /\ printed = <<>>

\* C9: Shape classification is total.  Whatever the nested field lists of
\* the schema, the classifier's loop of the scalar generator (the shape test
\* get_histogram_type of a histogram field, the test of the nested value
\* type of a scalar RECORD field) ends without raising.
C9_ShapeClassificationTotal ==
    (generator = "SA" /\ n_bq = 1) => locals.exc = "none"

\* a scalar-prefixed field of the keyed shape with values of type vt whose
\* name the registry has
KeyedCandidates(vt) ==
    {f \in SchemaFields :
        /\ StartsWith(f.name, "scalar_parent")
        /\ KeyedScalarShape(f, vt)
        /\ f.name \in scalar_probes(data)}

\* C10 as stated: every such field with INTEGER or BOOLEAN values is in the
\* keyed bucket get_scalar_probes returns.
C10_KeyedComplete ==
    probes.ret = "dict" =>
        \A f \in KeyedCandidates("INTEGER") \cup KeyedCandidates("BOOLEAN") :
            f.name \in probes.keyed

\* C10 amended: every such field with INTEGER values is in the keyed bucket
\* get_scalar_probes returns; one with BOOLEAN values is in none of the
\* three buckets.
C10_KeyedIntegerComplete ==
    probes.ret = "dict" =>
        /\ \A f \in KeyedCandidates("INTEGER") : f.name \in probes.keyed
        /\ \A f \in KeyedCandidates("BOOLEAN") : f.name \notin ReturnedNames

\* witness of C10: a schema with a keyed INTEGER and a keyed BOOLEAN scalar,
\* both in the registry, was classified
C10_Witness ==
    /\ probes.ret = "dict"
    /\ KeyedCandidates("INTEGER") # {}
    /\ KeyedCandidates("BOOLEAN") # {}
    /\ probes.keyed # {}

\* the schema fields named n
FieldsNamed(n) == {i \in 1..Len(main_summary_schema) : main_summary_schema[i].name = n}

\* C11: Bucket disjointness.  The three sets get_scalar_probes returns are
\* pairwise disjoint, and every returned name is the name of exactly one field
\* of the schema.
C11_BucketsDisjoint ==
    probes.ret = "dict" =>
        /\ probes.scalars \cap probes.booleans = {}
        /\ probes.scalars \cap probes.keyed = {}
        /\ probes.booleans \cap probes.keyed = {}
        /\ \A n \in ReturnedNames : Cardinality(FieldsNamed(n)) = 1

\* witness of C11: two fields were returned, in two different buckets
C11_Witness ==
    /\ probes.ret = "dict"
    /\ Cardinality(ReturnedNames) = 2
    /\ Cardinality({b \in {probes.scalars, probes.booleans, probes.keyed} : b # {}}) = 2

\* the aggregate names of the fragments q holds for the probe p, in order
AggregatesOf(q, p) ==
    LET fs == SelectSeq(q, LAMBDA t : t.k \in {"struct", "pair"} /\ t.probe = p)
    IN  [i \in 1..Len(fs) |-> fs[i].arg]

\* the schema has the INTEGER column scalar_parent_x_y and the registry the
\* key scalar/x.y (x.y standing for telemetry.test), under --agg-type scalar
ScalarScenario ==
    /\ generator = "SA" /\ agg_type = "scalar" /\ probes.ret = "dict"
    /\ Leaf(sxy, "INTEGER") \in SchemaFields
    /\ <<"scalar/", "x", ".", "y">> \in data

\* the four aggregates of a scalar probe, each once
FourAggregates(as) ==
    Len(as) = 4 /\ {as[i] : i \in 1..Len(as)} = {"max", "avg", "min", "sum"}

\* C12: Scalar scenario end to end.  An INTEGER field scalar_parent_x_y with
\* the registry key scalar/x.y is in the scalars bucket and in no other, and
\* the composer emits exactly four fragments for it, one each for max, avg,
\* min and sum, which the printed query holds.
C12_ScalarScenario ==
    ScalarScenario =>
        /\ sxy \in probes.scalars
        /\ sxy \notin probes.booleans \cup probes.keyed
        /\ pc \in {"out", "exited"} =>
              /\ exception = "none"
              /\ FourAggregates(AggregatesOf(sql_string["probes_string"], sxy))
        /\ pc = "exited" =>
              /\ Len(printed) = 1
              /\ FourAggregates(AggregatesOf(printed[1], sxy))

\* witness of C12: the scenario ran to its end and printed the four fragments
C12_Witness ==
    /\ ScalarScenario /\ pc = "exited" /\ Len(printed) = 1
    /\ F("struct", "max", sxy) \in Tokens(printed[1])

\* the schema has the column histogram_parent_y shaped RECORD -> RECORD(key
\* INTEGER, value INTEGER) and the registry the key histogram/y (y standing
\* for foo), and get_histogram_probes of the scalar generator has returned
HistogramScenario ==
    /\ generator = "SA" /\ probes.ret = "set"
    /\ MapField(hpy, KV("INTEGER", "INTEGER")) \in SchemaFields
    /\ <<"histogram/", "y">> \in data

\* the calls of a function in the text q
Calls(q) == {i \in 1..Len(q) : q[i].k = "call"}

\* q calls the function f, and calls it once
CalledOnce(q, f) ==
    Cardinality(Calls(q)) = 1 /\ \A i \in Calls(q) : q[i] = T("call", f)

\* C13: Histogram scenario end to end.  A field histogram_parent_y shaped
\* RECORD -> RECORD(key INTEGER, value INTEGER) with the registry key
\* histogram/y is returned by get_histogram_probes under 'histogram' (alone
\* when it is the only column) and not under 'string-histogram' or
\* 'keyed-histogram'; the composer emits exactly one summed-histogram
\* fragment for it, and the select clause calls udf_aggregate_map_sum once,
\* however many probes there are.
C13_HistogramScenario ==
    HistogramScenario =>
        /\ hpy \in probes.set <=> agg_type = "histogram"
        /\ (agg_type = "histogram" /\ Len(main_summary_schema) = 1) =>
              probes.set = {hpy}
        /\ (agg_type = "histogram" /\ pc \in {"out", "exited"}) =>
              /\ exception = "none"
              /\ AggregatesOf(sql_string["probes_string"], hpy) = <<"summed-histogram">>
              /\ Fragments(sql_string["select_clause"]) = {}
              /\ CalledOnce(sql_string["select_clause"], "udf_aggregate_map_sum")
        /\ (agg_type = "histogram" /\ pc = "exited") =>
              /\ Len(printed) = 1
              /\ AggregatesOf(printed[1], hpy) = <<"summed-histogram">>
              /\ CalledOnce(printed[1], "udf_aggregate_map_sum")

\* witness of C13: the scenario ran to its end beside a second histogram
\* probe, and the query was printed
C13_Witness ==
    /\ HistogramScenario /\ agg_type = "histogram" /\ pc = "exited"
    /\ Cardinality(probes.set) = 2 /\ Len(printed) = 1

\* the per-probe fragments of q, in order
FragmentSeq(q) == SelectSeq(q, LAMBDA t : t.k \in {"struct", "pair"})

\* the places in the fragment list fr of the fragments of probe p
PlacesOf(fr, p) == {i \in 1..Len(fr) : fr[i].probe = p}

\* the fragments of p in fr are those of the aggregates aggs, side by side
\* and in that order
Contiguous(fr, p, aggs) ==
    \E i \in 1..Len(fr) :
        /\ PlacesOf(fr, p) = i..(i + Len(aggs) - 1)
        /\ \A n \in 1..Len(aggs) : fr[i + n - 1] = F("struct", aggs[n], p)

\* the fragment block the composer returned for --agg-type scalar
ScalarBlockComposed ==
    /\ generator = "SA" /\ agg_type = "scalar" /\ probes.ret = "dict"
    /\ pc \in {"out", "exited"}

\* C14: Fragment count and order for type scalar.  The fragment block holds
\* 4 fragments for each scalar probe and 2 for each boolean probe and none
\* for a keyed one; the four of a scalar probe are side by side in the
\* order max, avg, min, sum, the two of a boolean probe side by side in the
\* order false, true; the fragments of scalar probes come before those of
\* boolean probes; and there is one separator fewer than fragments, none
\* when there is no fragment.
C14_ScalarFragments ==
    ScalarBlockComposed =>
        LET block == sql_string["probes_string"]
            fr == FragmentSeq(block)
        IN  /\ Len(fr) = 4 * Cardinality(probes.scalars)
                          + 2 * Cardinality(probes.booleans)
            /\ \A i \in 1..Len(fr) : fr[i].probe \notin probes.keyed
            /\ \A p \in probes.scalars :
                  Contiguous(fr, p, <<"max", "avg", "min", "sum">>)
            /\ \A p \in probes.booleans : Contiguous(fr, p, <<"false", "true">>)
            /\ \A i, j \in 1..Len(fr) :
                  (fr[i].probe \in probes.scalars /\ fr[j].probe \in probes.booleans)
                  => i < j
            /\ Cardinality(Places(block, Sep))
                  = IF Len(fr) = 0 THEN 0 ELSE Len(fr) - 1

\* witness of C14: a block with the fragments of a scalar and of a boolean
\* probe was composed
C14_Witness ==
    /\ ScalarBlockComposed /\ pc = "out"
    /\ probes.scalars # {} /\ probes.booleans # {}
    /\ Len(FragmentSeq(sql_string["probes_string"])) = 6

\* the selector is the keyed metric type of its generator
KeyedType ==
    \/ generator = "SA" /\ agg_type = "keyed-scalar"
    \/ generator = "HA" /\ agg_type = "keyed_histograms"

\* the clauses grouped_metrics and flattened_metrics of q
Reshaping(q) ==
    {i \in 1..Len(q) : /\ q[i].k = "cte"
                        /\ q[i].arg \in {"grouped_metrics", "flattened_metrics"}}

\* the tables the clause windowed of q reads from
WindowedReads(q) ==
    LET a == CHOOSE i \in 1..Len(q) : q[i].k = "cte" /\ q[i].arg = "windowed"
        b == CHOOSE i \in 1..Len(q) : q[i].k = "end" /\ q[i].arg = "windowed"
    IN  {q[m].arg : m \in {n \in (a + 1)..(b - 1) : q[n].k = "from"}}

\* the columns of the partition of the window w of q: the partition tokens
\* that follow its window token without a gap
PartitionColumns(q, w) ==
    LET a == CHOOSE i \in 1..Len(q) : q[i].k = "window" /\ q[i].arg = w
    IN  {q[m].arg : m \in {n \in (a + 1)..Len(q) :
                              \A x \in (a + 1)..n : q[x].k = "partition"}}

\* the tables that are the input of the chain, defined outside the query
SourceTables == {"main_summary_v4", "main_v4"}

\* every table a clause of q reads from, the source table aside, is defined
\* by a clause that ended before the reading one began
ReadsDefinedEarlier(q) ==
    \A i \in 1..Len(q) :
        (q[i].k = "from" /\ q[i].arg \notin SourceTables) =>
            \E j \in 1..(i - 1) :
                /\ q[j].k = "cte" /\ q[j].arg = q[i].arg
                /\ \E m \in (j + 1)..(i - 1) : q[m].k \in {"cte", "end"}

\* C15: Template shape by metric type.  In every printed query the clauses
\* grouped_metrics and flattened_metrics are both present, the clause
\* windowed reads from flattened_metrics, and metric and key are among the
\* partition columns of both windows, if and only if the metric type is the
\* keyed one of the generator; otherwise the two clauses are absent, windowed
\* reads from deduplicated and neither window is partitioned by metric or
\* key.  Every table a clause reads from, the source table aside, is defined
\* by an earlier clause.
C15_TemplateShape ==
    \A n \in 1..Len(printed) :
        LET q == printed[n]
            reads == WindowedReads(q)
            w1 == PartitionColumns(q, "w1")
            w1_unframed == PartitionColumns(q, "w1_unframed")
            added == {"metric", "key"}
        IN  /\ IF KeyedType
               THEN /\ Cardinality(Reshaping(q)) = 2
                    /\ reads = {"flattened_metrics"}
                    /\ added \subseteq w1
                    /\ added \subseteq w1_unframed
               ELSE /\ Reshaping(q) = {}
                    /\ reads = {"deduplicated"}
                    /\ added \cap w1 = {}
                    /\ added \cap w1_unframed = {}
            /\ Cardinality(w1) >= 6
            /\ w1 = w1_unframed
            /\ ReadsDefinedEarlier(q)

\* witness of C15: the scalar generator printed the query of a keyed scalar
C15_Witness ==
    /\ generator = "SA" /\ agg_type = "keyed-scalar" /\ pc = "exited"
    /\ Len(printed) = 1 /\ probes.keyed # {}
    /\ T("cte", "flattened_metrics") \in Tokens(printed[1])

\* the run ended without an exception
EndedSuccessfully == pc = "exited" /\ exception = "none"

\* the composer has returned
Composed == DOMAIN sql_string # {}

\* a step that fetches the schema, fetches the registry, composes, writes
FetchesSchema == n_bq' # n_bq
FetchesRegistry == n_urlopen' # n_urlopen
Composes == DOMAIN sql_string' # DOMAIN sql_string
Writes == printed' # printed

\* C16: Driver step order.  A run with an accepted selector that ends
\* without an exception has made exactly one schema fetch, exactly one
\* registry fetch, one composition and exactly one write, in that order: the
\* schema fetch is the first of the four, the registry fetch follows it, the
\* composition follows both fetches, the write follows the composition, and
\* no fetch, composition or write follows the write.
C16_DriverStepOrder ==
    /\ [](EndedSuccessfully =>
            /\ agg_type \in Vocabulary
            /\ n_bq = 1 /\ n_urlopen = 1 /\ Composed /\ Len(printed) = 1)
    /\ [][FetchesSchema =>
            /\ n_bq = 0 /\ n_bq' = 1
            /\ n_urlopen = 0 /\ ~Composed /\ printed = <<>>
            /\ ~FetchesRegistry /\ ~Composes /\ ~Writes]_vars
    /\ [][FetchesRegistry =>
            /\ n_bq = 1
            /\ n_urlopen = 0 /\ n_urlopen' = 1
            /\ ~Composed /\ printed = <<>>
            /\ ~Composes /\ ~Writes]_vars
    /\ [][Composes =>
            /\ n_bq = 1 /\ n_urlopen = 1
            /\ ~Composed /\ printed = <<>>
            /\ ~Writes]_vars
    /\ [][Writes =>
            /\ n_bq = 1 /\ n_urlopen = 1 /\ Composed
            /\ printed = <<>> /\ Len(printed') = 1]_vars
    /\ [][printed # <<>> => UNCHANGED <<n_bq, n_urlopen, sql_string, printed>>]_vars

\* witness of C16: a run of the histogram generator ended without an
\* exception, both fetches made and the query written
C16_Witness ==
    /\ generator = "HA" /\ EndedSuccessfully
    /\ n_bq = 1 /\ n_urlopen = 1 /\ Len(printed) = 1 /\ probes.ret = "set"

====
